---- MODULE Spec2Model ----
(***************************************************************************)
(* A model of yb::tablet::Operation (src/yb/tablet/operations/operation.cc)*)
(* the per-write lifecycle record: binding to a consensus round, hybrid    *)
(* time assignment on the leader and the follower path, the two terminal   *)
(* paths Replicated / Aborted and the exactly-once completion callback.    *)
(*                                                                         *)
(* One Operation object is modelled.  Thread "drv" is the thread that      *)
(* drives the record through its lifecycle, thread "aux" is any other      *)
(* thread that completes the record or reads it concurrently.  Every       *)
(* member function is cut into steps at the points where another thread    *)
(* can observe an intermediate state: the atomic compare-exchange, the     *)
(* atomic stores of set_consensus_round, and the calls to collaborators.   *)
(* A critical section taken and released inside one statement sequence     *)
(* without atomic stores is one step.                                      *)
(*                                                                         *)
(* Everything the record does to its collaborators (MvccManager, the       *)
(* virtual hooks, the completion callback, the log) is appended to         *)
(* `trace`, tagged with the call that did it.                              *)
(***************************************************************************)
EXTENDS Integers, Sequences, FiniteSets, TLC

\* ---- bounds -------------------------------------------------------------
MaxCalls == 3        \* member-function calls made on the record, by all threads

\* ---- value domains ------------------------------------------------------
Threads == {"drv", "aux"}
OpIds == {1, 2}              \* valid OpIds; 0 stands for the invalid OpId
InvalidOpId == 0
InvalidHT == 0               \* HybridTime::kInvalid
FollowerHTs == {8, 9}        \* hybrid times carried by replicated entries
NULL == 0                    \* a null ConsensusRoundPtr
ROUND == 1                   \* the one ConsensusRound object of the model

VARIABLES
    debug_build,             \* built without NDEBUG: DCHECK and DFATAL are fatal
    use_mvcc_,               \* what the kind's virtual use_mvcc() returns
    has_clbk,                \* completion_clbk_ is non-empty
    complete_,               \* std::atomic<bool> complete_
    mutex_,                  \* holder of simple_spinlock mutex_, or "none"
    consensus_round_,        \* consensus_round_ (guarded by mutex_)
    consensus_round_atomic_, \* the atomic mirror of the round pointer
    op_id_,                  \* std::atomic<OpId> op_id_
    hybrid_time_,            \* hybrid_time_ (guarded by mutex_)
    replicate_msg,           \* the round's ReplicateMsg
    request_updated,         \* UpdateRequestFromConsensusRound has run
    tablet_alive,            \* tablet_.lock() yields a tablet
    monotonic_counter,       \* *tablet->monotonic_counter()
    clock,                   \* last hybrid time issued by the clock / MvccManager
    mvcc_pending,            \* hybrid times MvccManager tracks as pending
    crashed,                 \* the process was terminated
    pc,                      \* per thread: position inside the current call
    cur,                     \* per thread: index of the current call in calls
    frame,                   \* per thread: locals of the current call
    calls,                   \* history: every call made, with its arguments
    trace,                   \* history: every collaborator interaction
    observed,                \* what the last lock-free read returned
    args,                    \* doc_kv_util: the values handed to the encoders
    dest,                    \* doc_kv_util: the key buffers being built
    slice,                   \* doc_kv_util: the slice a decoder consumes
    result,                  \* doc_kv_util: what the decoders have returned
    step,                    \* doc_kv_util: encoder / decoder calls made so far
    synchronizer             \* the caller's Synchronizer behind the weak callback

vars == <<debug_build, use_mvcc_, has_clbk, complete_, mutex_, consensus_round_,
          consensus_round_atomic_, op_id_, hybrid_time_, replicate_msg,
          request_updated, tablet_alive, monotonic_counter, clock, mvcc_pending,
          crashed, pc, cur, frame, calls, trace, observed,
          args, dest, slice, result, step, synchronizer>>

\* the fields of the record itself
record_vars == <<complete_, mutex_, consensus_round_, consensus_round_atomic_,
                 op_id_, hybrid_time_>>
\* the collaborators' state
env_vars == <<replicate_msg, request_updated, tablet_alive, monotonic_counter,
              clock, mvcc_pending>>
build_vars == <<debug_build, use_mvcc_, has_clbk>>
\* the buffers of the key encoding functions (doc_kv_util.h)
key_vars == <<args, dest, slice, result, step>>
\* what no member function of Operation changes
outside_vars == <<key_vars, synchronizer, build_vars>>

\* ---- history helpers ----------------------------------------------------
Ev(e, c, h, i, s) == [ev |-> e, call |-> c, ht |-> h, id |-> i, st |-> s]

NoFrame == [st |-> "", ht |-> InvalidHT, shared |-> FALSE, sync |-> FALSE]

NewCall(t, o, a_wp, a_st, a_ht, a_id, a_cid) ==
    [t |-> t, op |-> o, wp |-> a_wp, st |-> a_st, ht |-> a_ht, id |-> a_id,
     cid |-> a_cid, ret |-> "running",
     \* the record as the call found it
     flag0 |-> complete_, ht0 |-> hybrid_time_, id0 |-> op_id_,
     pend0 |-> mvcc_pending]

\* the thread may start another call
MayCall(t) ==
    /\ ~crashed
    /\ pc[t] = "idle"
    /\ Len(calls) < MaxCalls

\* start call: push the call record, move to its first label
Enter(t, call, label) ==
    /\ calls' = Append(calls, call)
    /\ cur' = [cur EXCEPT ![t] = Len(calls) + 1]
    /\ pc' = [pc EXCEPT ![t] = label]

\* return from the current call with value r
Return(t, r) ==
    /\ calls' = [calls EXCEPT ![cur[t]].ret = r]
    /\ cur' = [cur EXCEPT ![t] = 0]
    /\ pc' = [pc EXCEPT ![t] = "idle"]
    /\ frame' = [frame EXCEPT ![t] = NoFrame]

Goto(t, label) ==
    /\ pc' = [pc EXCEPT ![t] = label]
    /\ UNCHANGED <<cur, calls>>

At(t, label) == ~crashed /\ pc[t] = label

Log(evs) == trace' = trace \o evs

\* ---- the state after Operation::Operation -------------------------------
Constructed ==
    /\ debug_build \in BOOLEAN
    /\ use_mvcc_ \in BOOLEAN
    /\ has_clbk \in BOOLEAN
    /\ complete_ = FALSE
    /\ mutex_ = "none"
    /\ consensus_round_ = NULL
    /\ consensus_round_atomic_ = NULL
    /\ op_id_ = InvalidOpId
    /\ hybrid_time_ = InvalidHT
    /\ replicate_msg \in [id : {InvalidOpId, 1}, committed_op_id : {InvalidOpId},
                          hybrid_time : {InvalidHT}, monotonic_counter : {0}]
    /\ request_updated = FALSE
    /\ tablet_alive = TRUE
    /\ monotonic_counter = 5
    /\ clock = 0
    /\ mvcc_pending = {}
    /\ crashed = FALSE
    /\ pc = [t \in Threads |-> "idle"]
    /\ cur = [t \in Threads |-> 0]
    /\ frame = [t \in Threads |-> NoFrame]
    /\ calls = <<>>
    /\ trace = <<>>
    /\ observed = [round |-> NULL, op_id |-> InvalidOpId, updated |-> FALSE]
    /\ synchronizer = [owned |-> TRUE, status |-> "none"]

\* the process is terminated (LOG(FATAL), a failed DCHECK or DFATAL in a debug
\* build, SIGSEGV): nothing runs afterwards
Crash(evs) ==
    /\ crashed' = TRUE
    /\ Log(evs)
    /\ UNCHANGED <<outside_vars, record_vars, env_vars, pc, cur, frame, calls, observed>>

\* ---- collaborators (declared outside operation.cc) ----------------------
\* HybridTime::is_valid
is_valid(h) == h # InvalidHT

\* Operation::hybrid_time() / hybrid_time_even_if_unset(): read under mutex_
hybrid_time == hybrid_time_
hybrid_time_even_if_unset == hybrid_time_

\* Operation::op_id(): atomic load of op_id_
op_id == op_id_

\* ConsensusRound::id(): the id carried by the round's replicate message
RoundId == replicate_msg.id

\* the status the kind's DoAborted hook makes of the abort status
DoAborted(status) == "DoAborted(" \o status \o ")"

\* what the value returned by a call is once CompleteWithStatus is through
ReturnValue(c) == IF calls[c].op = "Replicated" THEN "OK" ELSE "void"

Max(a, b) == IF a >= b THEN a ELSE b

\* ---- Operation::CompleteWithStatus, operation.cc:83-92 ------------------
CallCompleteWithStatus(t, status) ==
    /\ MayCall(t)
    /\ Enter(t, NewCall(t, "CompleteWithStatus", FALSE, status, InvalidHT,
                        InvalidOpId, InvalidOpId), "cws_cas")
    /\ frame' = [frame EXCEPT ![t] = [NoFrame EXCEPT !.st = status]]
    /\ UNCHANGED <<outside_vars, record_vars, env_vars, crashed, trace, observed>>

\* a completion that sets the flag without testing it
CompareExchangeBlind(t) ==
    /\ At(t, "cws_cas")
    /\ complete_' = TRUE
    /\ Log(<<Ev("flip", cur[t], InvalidHT, InvalidOpId, frame[t].st)>>)
    /\ Goto(t, "cws_clbk")
    /\ UNCHANGED <<outside_vars, mutex_, consensus_round_, consensus_round_atomic_,
                   op_id_, hybrid_time_, env_vars, crashed, frame, observed>>

\* a completion that flips the flag under mutex_ and keeps the lock through
\* the callback
CompareExchangeUnderLock(t) ==
    /\ At(t, "cws_cas")
    /\ mutex_ = "none"
    /\ mutex_' = t
    /\ complete_' = TRUE
    /\ Log(<<Ev("flip", cur[t], InvalidHT, InvalidOpId, frame[t].st)>>)
    /\ Goto(t, "cws_clbk")
    /\ UNCHANGED <<outside_vars, consensus_round_, consensus_round_atomic_,
                   op_id_, hybrid_time_, env_vars, crashed, frame, observed>>

\* line 85: complete_.compare_exchange_strong(expected = false, true), and the
\* DFATAL branch of lines 86-87
CompareExchange(t) ==
    /\ At(t, "cws_cas")
    /\ IF complete_ = FALSE
       THEN /\ complete_' = TRUE
            /\ Log(<<Ev("flip", cur[t], InvalidHT, InvalidOpId, frame[t].st)>>)
            /\ Goto(t, "cws_clbk")
            /\ UNCHANGED <<outside_vars, mutex_, consensus_round_, consensus_round_atomic_,
                           op_id_, hybrid_time_, env_vars, crashed, frame, observed>>
       ELSE IF debug_build
            THEN Crash(<<Ev("DFATAL", cur[t], InvalidHT, InvalidOpId, frame[t].st)>>)
            ELSE /\ Log(<<Ev("DFATAL", cur[t], InvalidHT, InvalidOpId, frame[t].st)>>)
                 /\ Return(t, ReturnValue(cur[t]))
                 /\ UNCHANGED <<outside_vars, record_vars, env_vars, crashed, observed>>

\* lines 89-91: if (completion_clbk_) completion_clbk_(status)
InvokeCallback(t) ==
    /\ At(t, "cws_clbk")
    /\ Log(IF has_clbk
           THEN <<Ev("Callback", cur[t], InvalidHT, InvalidOpId, frame[t].st)>>
           ELSE <<>>)
    /\ Return(t, ReturnValue(cur[t]))
    /\ UNCHANGED <<outside_vars, record_vars, env_vars, crashed, observed>>

\* ---- Operation::Replicated(leader_term, was_pending), operation.cc:67-74 -
CallReplicated(t, was_pending) ==
    /\ MayCall(t)
    /\ Enter(t, NewCall(t, "Replicated", was_pending, "", InvalidHT, InvalidOpId,
                        InvalidOpId), "rep_do")
    /\ frame' = [frame EXCEPT ![t] = [NoFrame EXCEPT !.st = "OK"]]   \* line 68
    /\ UNCHANGED <<outside_vars, record_vars, env_vars, crashed, trace, observed>>

\* an apply whose error is dropped instead of returned
DoReplicatedUnchecked(t) ==
    /\ At(t, "rep_do")
    /\ \E status \in {"ApplyErr", "OK", "Conflict"} :
          /\ Log(<<Ev("DoReplicated", cur[t], InvalidHT, InvalidOpId, status)>>)
          /\ Goto(t, "rep_mvcc")
          /\ UNCHANGED frame
    /\ UNCHANGED <<outside_vars, record_vars, env_vars, crashed, observed>>

\* a failed apply hook that marks the record complete before it returns
DoReplicatedFailureCompletes(t) ==
    /\ At(t, "rep_do")
    /\ \/ /\ Log(<<Ev("DoReplicated", cur[t], InvalidHT, InvalidOpId, "ApplyErr")>>)
          /\ complete_' = TRUE
          /\ Return(t, "ApplyErr")
       \/ \E status \in {"OK", "Conflict"} :
             /\ Log(<<Ev("DoReplicated", cur[t], InvalidHT, InvalidOpId, status)>>)
             /\ frame' = [frame EXCEPT ![t].st = status]
             /\ complete_' = complete_
             /\ Goto(t, "rep_mvcc")
    /\ UNCHANGED <<outside_vars, mutex_, consensus_round_, consensus_round_atomic_,
                   op_id_, hybrid_time_, env_vars, crashed, observed>>

\* line 69: RETURN_NOT_OK(DoReplicated(leader_term, &complete_status)).  The hook
\* either fails, or succeeds leaving a status in complete_status.
DoReplicated(t) ==
    /\ At(t, "rep_do")
    /\ \/ /\ Log(<<Ev("DoReplicated", cur[t], InvalidHT, InvalidOpId, "ApplyErr")>>)
          /\ Return(t, "ApplyErr")
       \/ \E status \in {"OK", "Conflict"} :
             /\ Log(<<Ev("DoReplicated", cur[t], InvalidHT, InvalidOpId, status)>>)
             /\ frame' = [frame EXCEPT ![t].st = status]
             /\ Goto(t, "rep_mvcc")
    /\ UNCHANGED <<outside_vars, record_vars, env_vars, crashed, observed>>

\* Operation::Replicated(WasPending), operation.cc:160-167 (called at line 70)
ReplicatedNotify(t) ==
    /\ At(t, "rep_mvcc")
    /\ IF use_mvcc_ /\ ~tablet_alive
       THEN Crash(<<Ev("FATAL", cur[t], InvalidHT, InvalidOpId, "")>>)
       ELSE /\ use_mvcc_ => mutex_ = "none"
            /\ mvcc_pending' = IF use_mvcc_ THEN mvcc_pending \ {hybrid_time}
                               ELSE mvcc_pending
            /\ Log((IF use_mvcc_
                    THEN <<Ev("mvcc.Replicated", cur[t], hybrid_time, op_id, "")>>
                    ELSE <<>>)
                   \o (IF calls[cur[t]].wp
                       THEN <<Ev("RemovedFromPending", cur[t], InvalidHT, InvalidOpId, "")>>
                       ELSE <<>>))
            /\ Goto(t, "rep_release")
            /\ UNCHANGED <<outside_vars, record_vars, replicate_msg, request_updated,
                           tablet_alive, monotonic_counter, clock, crashed, frame,
                           observed>>

\* a completion with Status::OK() whatever the apply produced
ReplicatedCompleteStatusOK(t) == "OK"

\* line 72: the status handed to CompleteWithStatus is complete_status
ReplicatedCompleteStatus(t) == frame[t].st

\* line 71: Release(), and the argument of line 72
ReplicatedRelease(t) ==
    /\ At(t, "rep_release")
    /\ Log(<<Ev("Release", cur[t], InvalidHT, InvalidOpId, "")>>)
    /\ frame' = [frame EXCEPT ![t].st = ReplicatedCompleteStatus(t)]
    /\ Goto(t, "cws_cas")                                            \* line 72
    /\ UNCHANGED <<outside_vars, record_vars, env_vars, crashed, observed>>

\* ---- Operation::Aborted(status, was_pending), operation.cc:76-81 --------
CallAborted(t, status, was_pending) ==
    /\ MayCall(t)
    /\ Enter(t, NewCall(t, "Aborted", was_pending, status, InvalidHT, InvalidOpId,
                        InvalidOpId), "ab_mvcc")
    /\ frame' = [frame EXCEPT ![t] = [NoFrame EXCEPT !.st = status]]
    /\ UNCHANGED <<outside_vars, record_vars, env_vars, crashed, trace, observed>>

\* an abort that notifies without testing the hybrid time
AbortedNotifiesMvccUnchecked == use_mvcc_

\* an abort that never tells MvccManager
AbortedNotifiesMvccNever == FALSE

\* lines 148-150: MvccManager hears of the abort only for a kind that uses
\* MVCC and a hybrid time that is set
AbortedNotifiesMvcc == use_mvcc_ /\ is_valid(hybrid_time_even_if_unset)

\* Operation::Aborted(bool), operation.cc:147-158 (called at line 78)
AbortedNotify(t) ==
    /\ At(t, "ab_mvcc")
    /\ LET notify == AbortedNotifiesMvcc IN
       IF notify /\ ~tablet_alive
       THEN Crash(<<Ev("FATAL", cur[t], InvalidHT, InvalidOpId, "")>>)
       ELSE /\ use_mvcc_ => mutex_ = "none"
            /\ mvcc_pending' = IF notify THEN mvcc_pending \ {hybrid_time_even_if_unset}
                               ELSE mvcc_pending
            /\ Log((IF notify
                    THEN <<Ev("mvcc.Aborted", cur[t], hybrid_time_even_if_unset, op_id, "")>>
                    ELSE <<>>)
                   \o (IF calls[cur[t]].wp
                       THEN <<Ev("RemovedFromPending", cur[t], InvalidHT, InvalidOpId, "")>>
                       ELSE <<>>))
            /\ Goto(t, "ab_release")
            /\ UNCHANGED <<outside_vars, record_vars, replicate_msg, request_updated,
                           tablet_alive, monotonic_counter, clock, crashed, frame,
                           observed>>

\* line 79: Release(), and the argument of line 80: DoAborted(status)
AbortedRelease(t) ==
    /\ At(t, "ab_release")
    /\ Log(<<Ev("Release", cur[t], InvalidHT, InvalidOpId, "")>>)
    /\ frame' = [frame EXCEPT ![t].st = DoAborted(frame[t].st)]
    /\ Goto(t, "cws_cas")                                            \* line 80
    /\ UNCHANGED <<outside_vars, record_vars, env_vars, crashed, observed>>


\* ---- Operation::set_consensus_round, operation.cc:94-103 ----------------
CallSetConsensusRound(t) ==
    /\ MayCall(t)
    /\ Enter(t, NewCall(t, "set_consensus_round", FALSE, "", InvalidHT, RoundId,
                        InvalidOpId), "bind_lock")
    /\ UNCHANGED <<outside_vars, record_vars, env_vars, crashed, frame, trace, observed>>

\* lines 96-98: take mutex_, consensus_round_ = consensus_round
BindLockAndStore(t) ==
    /\ At(t, "bind_lock")
    /\ mutex_ = "none"
    /\ mutex_' = t
    /\ consensus_round_' = ROUND
    /\ Goto(t, "bind_atomic")
    /\ UNCHANGED <<outside_vars, complete_, consensus_round_atomic_, op_id_, hybrid_time_,
                   env_vars, crashed, frame, trace, observed>>

\* a bind whose lock guard ends before the id is mirrored
BindStoreAtomicUnlocked(t) ==
    /\ At(t, "bind_atomic")
    /\ consensus_round_atomic_' = consensus_round_
    /\ mutex_' = "none"
    /\ Goto(t, "bind_op_id")
    /\ UNCHANGED <<outside_vars, complete_, consensus_round_, op_id_, hybrid_time_,
                   env_vars, crashed, frame, trace, observed>>

\* line 99: consensus_round_atomic_.store(consensus_round.get(), release)
BindStoreAtomic(t) ==
    /\ At(t, "bind_atomic")
    /\ consensus_round_atomic_' = consensus_round_
    /\ Goto(t, "bind_op_id")
    /\ UNCHANGED <<outside_vars, complete_, mutex_, consensus_round_, op_id_, hybrid_time_,
                   env_vars, crashed, frame, trace, observed>>

\* a bind that does not mirror the round's id
BindStoreOpIdSkipped(t) ==
    /\ At(t, "bind_op_id")
    /\ Goto(t, "bind_unlock")
    /\ UNCHANGED <<outside_vars, record_vars, env_vars, crashed, frame, trace, observed>>

\* line 100: op_id_.store(consensus_round_->id(), release)
BindStoreOpId(t) ==
    /\ At(t, "bind_op_id")
    /\ op_id_' = RoundId
    /\ Goto(t, "bind_unlock")
    /\ UNCHANGED <<outside_vars, complete_, mutex_, consensus_round_,
                   consensus_round_atomic_, hybrid_time_, env_vars, crashed, frame,
                   trace, observed>>

\* line 101: the lock_guard goes out of scope
BindUnlock(t) ==
    /\ At(t, "bind_unlock")
    /\ mutex_' = "none"
    /\ Goto(t, "bind_update")
    /\ UNCHANGED <<outside_vars, complete_, consensus_round_, consensus_round_atomic_,
                   op_id_, hybrid_time_, env_vars, crashed, frame, trace, observed>>

\* line 102: UpdateRequestFromConsensusRound()
BindUpdateRequest(t) ==
    /\ At(t, "bind_update")
    /\ request_updated' = TRUE
    /\ Log(<<Ev("UpdateRequestFromConsensusRound", cur[t], InvalidHT, op_id, "")>>)
    /\ Return(t, "void")
    /\ UNCHANGED <<outside_vars, record_vars, replicate_msg, tablet_alive,
                   monotonic_counter, clock, mvcc_pending, crashed, observed>>

\* ---- Operation::set_hybrid_time, operation.cc:105-110 -------------------
\* One critical section.  DCHECK(!hybrid_time_.is_valid()) terminates a debug
\* build and is compiled out of a release build.
set_hybrid_time(t, ht) ==
    /\ MayCall(t)
    /\ mutex_ = "none"
    /\ IF debug_build /\ is_valid(hybrid_time_)
       THEN /\ crashed' = TRUE
            /\ calls' = Append(calls, NewCall(t, "set_hybrid_time", FALSE, "", ht,
                                              InvalidOpId, InvalidOpId))
            /\ Log(<<Ev("DCHECK", Len(calls) + 1, ht, InvalidOpId, "")>>)
            /\ UNCHANGED <<outside_vars, record_vars, env_vars, pc, cur, frame, observed>>
       ELSE /\ hybrid_time_' = ht
            /\ calls' = Append(calls, [NewCall(t, "set_hybrid_time", FALSE, "", ht,
                                               InvalidOpId, InvalidOpId)
                                       EXCEPT !.ret = "void"])
            /\ UNCHANGED <<outside_vars, complete_, mutex_, consensus_round_,
                           consensus_round_atomic_, op_id_, env_vars, crashed, pc, cur,
                           frame, trace, observed>>

\* ---- Operation::AddedToLeader, operation.cc:116-137 ---------------------
CallAddedToLeader(t, id, committed) ==
    /\ MayCall(t)
    /\ Enter(t, NewCall(t, "AddedToLeader", FALSE, "", InvalidHT, id, committed),
             "atl_time")
    /\ UNCHANGED <<outside_vars, record_vars, env_vars, crashed, frame, trace, observed>>

\* lines 117-123: shared_tablet = tablet(); the hybrid time comes from
\* MvccManager::AddLeaderPending or from the clock
LeaderTakeTime(t) ==
    /\ At(t, "atl_time")
    /\ IF ~tablet_alive
       THEN Crash(<<Ev("FATAL", cur[t], InvalidHT, InvalidOpId, "")>>)
       ELSE /\ clock' = clock + 1
            /\ frame' = [frame EXCEPT ![t].ht = clock + 1, ![t].shared = TRUE]
            /\ mvcc_pending' = IF use_mvcc_ THEN mvcc_pending \cup {clock + 1}
                               ELSE mvcc_pending
            /\ Log(IF use_mvcc_
                   THEN <<Ev("mvcc.AddLeaderPending", cur[t], clock + 1,
                             calls[cur[t]].id, "")>>
                   ELSE <<Ev("clock.Now", cur[t], clock + 1, InvalidOpId, "")>>)
            /\ Goto(t, "atl_store")
            /\ UNCHANGED <<outside_vars, record_vars, replicate_msg, request_updated,
                           tablet_alive, monotonic_counter, crashed, observed>>

\* a stamp that leaves the message's hybrid time out
StampedMsgNoTime(t) ==
    [id |-> calls[cur[t]].id,
     committed_op_id |-> calls[cur[t]].cid,
     hybrid_time |-> replicate_msg.hybrid_time,
     monotonic_counter |-> monotonic_counter]

\* lines 129-133: the round's replicate message after AddedToLeader stamped it
StampedMsg(t) ==
    [id |-> calls[cur[t]].id,                                        \* line 130
     committed_op_id |-> calls[cur[t]].cid,                          \* line 131
     hybrid_time |-> frame[t].ht,                                    \* line 132
     monotonic_counter |-> monotonic_counter]                        \* line 133

\* lines 125-134: one critical section.  Line 129 dereferences consensus_round_:
\* on a record that was never bound this is a null dereference, after
\* hybrid_time_ and op_id_ were already stored.
LeaderStore(t) ==
    /\ At(t, "atl_store")
    /\ mutex_ = "none"
    /\ hybrid_time_' = frame[t].ht                                   \* line 127
    /\ op_id_' = calls[cur[t]].id                                    \* line 128
    /\ IF consensus_round_ = NULL
       THEN /\ crashed' = TRUE
            /\ mutex_' = t
            /\ Log(<<Ev("SIGSEGV", cur[t], InvalidHT, InvalidOpId, "")>>)
            /\ UNCHANGED <<outside_vars, complete_, consensus_round_,
                           consensus_round_atomic_, env_vars, pc, cur, frame, calls,
                           observed>>
       ELSE /\ replicate_msg' = StampedMsg(t)
            /\ Log(<<Ev("stamp", cur[t], frame[t].ht, calls[cur[t]].id, "")>>)
            /\ Goto(t, "atl_added")
            /\ UNCHANGED <<outside_vars, complete_, mutex_, consensus_round_,
                           consensus_round_atomic_, request_updated, tablet_alive,
                           monotonic_counter, clock, mvcc_pending, crashed, frame,
                           observed>>

\* line 136: AddedAsPending()
LeaderAddedAsPending(t) ==
    /\ At(t, "atl_added")
    /\ Log(<<Ev("AddedAsPending", cur[t], hybrid_time_, op_id_, "")>>)
    /\ Return(t, "void")
    /\ UNCHANGED <<outside_vars, record_vars, env_vars, crashed, observed>>

\* ---- Operation::AddedToFollower, operation.cc:139-145 -------------------
CallAddedToFollower(t) ==
    /\ MayCall(t)
    /\ Enter(t, NewCall(t, "AddedToFollower", FALSE, "", InvalidHT, InvalidOpId,
                        InvalidOpId), "atf_mvcc")
    /\ UNCHANGED <<outside_vars, record_vars, env_vars, crashed, frame, trace, observed>>

\* a follower that registers a fresh hybrid time instead of the entry's
FollowerPendingTimeFresh == clock + 1

\* line 141: the hybrid time AddedToFollower registers is the record's own
FollowerPendingTime == hybrid_time

\* lines 140-142: tablet()->mvcc_manager()->AddFollowerPending(hybrid_time(), op_id())
FollowerRegister(t) ==
    /\ At(t, "atf_mvcc")
    /\ IF use_mvcc_ /\ ~tablet_alive
       THEN Crash(<<Ev("FATAL", cur[t], InvalidHT, InvalidOpId, "")>>)
       ELSE /\ use_mvcc_ => mutex_ = "none"
            /\ mvcc_pending' = IF use_mvcc_ THEN mvcc_pending \cup {FollowerPendingTime}
                               ELSE mvcc_pending
            /\ clock' = IF use_mvcc_ THEN Max(clock, FollowerPendingTime) ELSE clock
            /\ Log(IF use_mvcc_
                   THEN <<Ev("mvcc.AddFollowerPending", cur[t], FollowerPendingTime,
                             op_id, "")>>
                   ELSE <<>>)
            /\ Goto(t, "atf_added")
            /\ UNCHANGED <<outside_vars, record_vars, replicate_msg, request_updated,
                           tablet_alive, monotonic_counter, crashed, frame, observed>>

\* line 144: AddedAsPending()
FollowerAddedAsPending(t) ==
    /\ At(t, "atf_added")
    /\ Log(<<Ev("AddedAsPending", cur[t], hybrid_time_, op_id_, "")>>)
    /\ Return(t, "void")
    /\ UNCHANGED <<outside_vars, record_vars, env_vars, crashed, observed>>

\* ---- concurrent readers and the owner -----------------------------------
\* a status thread reads the mirrored fields without taking mutex_:
\* consensus_round() and op_id()
ReadMirrored(t) ==
    /\ MayCall(t)
    /\ observed' = [round |-> consensus_round_atomic_, op_id |-> op_id,
                    updated |-> request_updated]
    /\ calls' = Append(calls, [NewCall(t, "read", FALSE, "", InvalidHT, op_id,
                                       InvalidOpId) EXCEPT !.ret = "void"])
    /\ UNCHANGED <<outside_vars, record_vars, env_vars, crashed, pc, cur, frame, trace>>

\* the owner drops the last strong reference to the tablet; a thread that
\* holds a strong handle (shared_tablet in AddedToLeader, line 118, or the
\* result of tablet() / tablet_safe()) keeps it alive
DestroyTablet ==
    /\ ~crashed
    /\ tablet_alive
    /\ \A t \in Threads : ~frame[t].shared
    /\ tablet_alive' = FALSE
    /\ Log(<<Ev("teardown", 0, InvalidHT, InvalidOpId, "")>>)
    /\ UNCHANGED <<outside_vars, record_vars, replicate_msg, request_updated,
                   monotonic_counter, clock, mvcc_pending, crashed, pc, cur, frame,
                   calls, observed>>

\* ---- Operation::tablet and Operation::tablet_safe ------------------------
CallTablet(t) ==
    /\ MayCall(t)
    /\ Enter(t, NewCall(t, "tablet", FALSE, "", InvalidHT, InvalidOpId, InvalidOpId),
             "tab_lock")
    /\ UNCHANGED <<outside_vars, record_vars, env_vars, crashed, frame, trace, observed>>

\* tablet_.lock() (line 170): a live tablet gives a strong handle, an expired
\* one reaches LOG(FATAL) (lines 171-174)
TabletLock(t) ==
    /\ At(t, "tab_lock")
    /\ IF tablet_alive
       THEN /\ frame' = [frame EXCEPT ![t].shared = TRUE]
            /\ Log(<<Ev("lock", cur[t], InvalidHT, InvalidOpId, "alive")>>)
            /\ Goto(t, "tab_held")
            /\ UNCHANGED <<outside_vars, record_vars, env_vars, crashed, observed>>
       ELSE Crash(<<Ev("lock", cur[t], InvalidHT, InvalidOpId, "expired"),
                    Ev("FATAL", cur[t], InvalidHT, InvalidOpId, "")>>)

CallTabletSafe(t) ==
    /\ MayCall(t)
    /\ Enter(t, NewCall(t, "tablet_safe", FALSE, "", InvalidHT, InvalidOpId,
                        InvalidOpId), "safe_lock")
    /\ UNCHANGED <<outside_vars, record_vars, env_vars, crashed, frame, trace, observed>>

\* a tablet_safe that treats an expired tablet as tablet() does
TabletSafeLockFatal(t) ==
    /\ At(t, "safe_lock")
    /\ IF tablet_alive
       THEN /\ frame' = [frame EXCEPT ![t].shared = TRUE]
            /\ Log(<<Ev("lock", cur[t], InvalidHT, InvalidOpId, "alive")>>)
            /\ Goto(t, "tab_held")
            /\ UNCHANGED <<outside_vars, record_vars, env_vars, crashed, observed>>
       ELSE Crash(<<Ev("lock", cur[t], InvalidHT, InvalidOpId, "expired"),
                    Ev("FATAL", cur[t], InvalidHT, InvalidOpId, "")>>)

\* tablet_.lock() (line 179): a live tablet gives a strong handle, an expired
\* one returns STATUS(IllegalState, "Tablet object has already been
\* deallocated") (lines 180-182)
TabletSafeLock(t) ==
    /\ At(t, "safe_lock")
    /\ IF tablet_alive
       THEN /\ frame' = [frame EXCEPT ![t].shared = TRUE]
            /\ Log(<<Ev("lock", cur[t], InvalidHT, InvalidOpId, "alive")>>)
            /\ Goto(t, "tab_held")
            /\ UNCHANGED <<outside_vars, record_vars, env_vars, crashed, observed>>
       ELSE /\ Log(<<Ev("lock", cur[t], InvalidHT, InvalidOpId, "expired")>>)
            /\ Return(t, "IllegalState")
            /\ UNCHANGED <<outside_vars, record_vars, env_vars, crashed, observed>>

\* the caller is done with the handle that tablet() (line 175) or
\* tablet_safe() (line 183) returned and drops it
ReleaseHandle(t) ==
    /\ At(t, "tab_held")
    /\ Return(t, "TabletPtr")
    /\ UNCHANGED <<outside_vars, record_vars, env_vars, crashed, trace, observed>>

\* ---- MakeWeakSynchronizerOperationCompletionCallback, lines 194-202 -------
\* the Synchronizer exists while its owner or a running callback holds a
\* shared_ptr to it
SynchronizerAlive == synchronizer.owned \/ \E t \in Threads : frame[t].sync

\* completion_clbk_(status) where completion_clbk_ is the lambda of line 196
InvokeWeakSynchronizerCallback(t) ==
    /\ At(t, "cws_clbk")
    /\ Log(<<Ev("Callback", cur[t], InvalidHT, InvalidOpId, frame[t].st)>>)
    /\ Goto(t, "sync_lock")
    /\ UNCHANGED <<outside_vars, record_vars, env_vars, crashed, frame, observed>>

\* a callback that tests the weak pointer and keeps no shared_ptr
WeakLockUnheld(t) ==
    /\ At(t, "sync_lock")
    /\ IF SynchronizerAlive
       THEN /\ Log(<<Ev("sync.lock", cur[t], InvalidHT, InvalidOpId, "alive")>>)
            /\ Goto(t, "sync_status")
            /\ UNCHANGED <<outside_vars, record_vars, env_vars, crashed, frame, observed>>
       ELSE /\ Log(<<Ev("sync.lock", cur[t], InvalidHT, InvalidOpId, "expired")>>)
            /\ Return(t, ReturnValue(cur[t]))
            /\ UNCHANGED <<outside_vars, record_vars, env_vars, crashed, observed>>

\* line 197: auto shared_synchronizer = synchronizer.lock(), and the test of
\* line 198
WeakLock(t) ==
    /\ At(t, "sync_lock")
    /\ IF SynchronizerAlive
       THEN /\ frame' = [frame EXCEPT ![t].sync = TRUE]
            /\ Log(<<Ev("sync.lock", cur[t], InvalidHT, InvalidOpId, "alive")>>)
            /\ Goto(t, "sync_status")
            /\ UNCHANGED <<outside_vars, record_vars, env_vars, crashed, observed>>
       ELSE /\ Log(<<Ev("sync.lock", cur[t], InvalidHT, InvalidOpId, "expired")>>)
            /\ Return(t, ReturnValue(cur[t]))
            /\ UNCHANGED <<outside_vars, record_vars, env_vars, crashed, observed>>

\* line 199: shared_synchronizer->StatusCB(status); on a destroyed
\* Synchronizer this is a use after free
StatusCB(t) ==
    /\ At(t, "sync_status")
    /\ IF SynchronizerAlive
       THEN /\ synchronizer' = [synchronizer EXCEPT !.status = frame[t].st]
            /\ Log(<<Ev("StatusCB", cur[t], InvalidHT, InvalidOpId, frame[t].st)>>)
            /\ Goto(t, "sync_end")
            /\ UNCHANGED <<key_vars, build_vars, record_vars, env_vars, crashed, frame,
                           observed>>
       ELSE Crash(<<Ev("UseAfterFree", cur[t], InvalidHT, InvalidOpId, frame[t].st)>>)

\* lines 200-201: shared_synchronizer goes out of scope and the callback and
\* CompleteWithStatus return; the Synchronizer is destroyed here when its
\* owner has let go of it
CallbackReturns(t) ==
    /\ At(t, "sync_end")
    /\ Log(IF synchronizer.owned \/ \E u \in Threads \ {t} : frame[u].sync
           THEN <<>>
           ELSE <<Ev("sync.destroyed", cur[t], InvalidHT, InvalidOpId, "")>>)
    /\ Return(t, ReturnValue(cur[t]))
    /\ UNCHANGED <<outside_vars, record_vars, env_vars, crashed, observed>>

\* the owner of the Synchronizer lets go of its shared_ptr
DropSynchronizer ==
    /\ ~crashed
    /\ synchronizer.owned
    /\ synchronizer' = [synchronizer EXCEPT !.owned = FALSE]
    /\ Log(IF \E t \in Threads : frame[t].sync
           THEN <<>>
           ELSE <<Ev("sync.destroyed", 0, InvalidHT, InvalidOpId, "")>>)
    /\ UNCHANGED <<key_vars, build_vars, record_vars, env_vars, crashed, pc, cur, frame,
                   calls, observed>>

\* ---- specifications -----------------------------------------------------
\* the lifecycle driven by one thread
Next ==
    \/ CallCompleteWithStatus("drv", "Direct")
    \/ CompareExchange("drv")
    \/ InvokeCallback("drv")
    \/ \E wp \in BOOLEAN : CallReplicated("drv", wp)
    \/ DoReplicated("drv")
    \/ ReplicatedNotify("drv")
    \/ ReplicatedRelease("drv")
    \/ \E wp \in BOOLEAN : CallAborted("drv", "Aborted", wp)
    \/ AbortedNotify("drv")
    \/ AbortedRelease("drv")
    \/ CallSetConsensusRound("drv")
    \/ BindLockAndStore("drv")
    \/ BindStoreAtomic("drv")
    \/ BindStoreOpId("drv")
    \/ BindUnlock("drv")
    \/ BindUpdateRequest("drv")
    \/ \E ht \in FollowerHTs : set_hybrid_time("drv", ht)
    \/ \E id \in OpIds : CallAddedToLeader("drv", id, id - 1)
    \/ LeaderTakeTime("drv")
    \/ LeaderStore("drv")
    \/ LeaderAddedAsPending("drv")
    \/ CallAddedToFollower("drv")
    \/ FollowerRegister("drv")
    \/ FollowerAddedAsPending("drv")

\* no key is being encoded
NoKey ==
    /\ args = <<>>
    /\ dest = <<>>
    /\ slice = <<>>
    /\ result = <<>>
    /\ step = 0

\* the driving thread works on a record whose completion callback was registered
Init == Constructed /\ has_clbk /\ NoKey

Spec == Init /\ [][Next]_vars

\* two threads on the record of a kind that uses MVCC, bound to a round that
\* carries an id: the driving thread binds the record and ends it, another
\* thread completes it or reads its mirrored fields at any moment; with or
\* without a registered callback
NextConc ==
    \/ \E t \in Threads : CallCompleteWithStatus(t, IF t = "drv" THEN "Direct" ELSE "Other")
    \/ \E t \in Threads : CompareExchange(t)
    \/ \E t \in Threads : InvokeCallback(t)
    \/ \E wp \in BOOLEAN : CallReplicated("drv", wp)
    \/ DoReplicated("drv")
    \/ ReplicatedNotify("drv")
    \/ ReplicatedRelease("drv")
    \/ CallAborted("drv", "Aborted", TRUE)
    \/ AbortedNotify("drv")
    \/ AbortedRelease("drv")
    \/ CallSetConsensusRound("drv")
    \/ BindLockAndStore("drv")
    \/ BindStoreAtomic("drv")
    \/ BindStoreOpId("drv")
    \/ BindUnlock("drv")
    \/ BindUpdateRequest("drv")
    \/ ReadMirrored("aux")

InitConc == Constructed /\ use_mvcc_ /\ RoundId # InvalidOpId /\ NoKey

SpecConc == InitConc /\ [][NextConc]_vars

\* the owner may go away under the record
NextTeardown ==
    \/ \E t \in Threads :
          \/ CallTablet(t)
          \/ TabletLock(t)
          \/ CallTabletSafe(t)
          \/ TabletSafeLock(t)
          \/ ReleaseHandle(t)
    \/ CallSetConsensusRound("drv")
    \/ BindLockAndStore("drv")
    \/ BindStoreAtomic("drv")
    \/ BindStoreOpId("drv")
    \/ BindUnlock("drv")
    \/ BindUpdateRequest("drv")
    \/ \E id \in OpIds : CallAddedToLeader("drv", id, id - 1)
    \/ LeaderTakeTime("drv")
    \/ LeaderStore("drv")
    \/ LeaderAddedAsPending("drv")
    \/ DestroyTablet

SpecTeardown == Init /\ [][NextTeardown]_vars

\* a record whose completion callback is the weak Synchronizer callback,
\* completed by two threads while the owner of the Synchronizer may let go
NextSync ==
    \/ \E t \in Threads : CallCompleteWithStatus(t, IF t = "drv" THEN "Direct" ELSE "Other")
    \/ \E t \in Threads :
          \/ CompareExchange(t)
          \/ InvokeWeakSynchronizerCallback(t)
          \/ WeakLock(t)
          \/ StatusCB(t)
          \/ CallbackReturns(t)
    \/ CallAborted("drv", "Aborted", FALSE)
    \/ AbortedNotify("drv")
    \/ AbortedRelease("drv")
    \/ DropSynchronizer

InitSync == Init /\ use_mvcc_ /\ RoundId = InvalidOpId

SpecSync == InitSync /\ [][NextSync]_vars

\* the record of a replicated entry on a follower: the entry's hybrid time
\* was stored by set_hybrid_time right after construction; from there the
\* record is added as a follower's pending operation, replicated and aborted
InitFollower ==
    /\ debug_build \in BOOLEAN
    /\ use_mvcc_ \in BOOLEAN
    /\ has_clbk = TRUE
    /\ complete_ = FALSE
    /\ mutex_ = "none"
    /\ consensus_round_ = NULL
    /\ consensus_round_atomic_ = NULL
    /\ op_id_ = InvalidOpId
    /\ hybrid_time_ \in FollowerHTs
    /\ replicate_msg = [id |-> InvalidOpId, committed_op_id |-> InvalidOpId,
                        hybrid_time |-> InvalidHT, monotonic_counter |-> 0]
    /\ request_updated = FALSE
    /\ tablet_alive = TRUE
    /\ monotonic_counter = 5
    /\ clock = 0
    /\ mvcc_pending = {}
    /\ crashed = FALSE
    /\ pc = [t \in Threads |-> "idle"]
    /\ cur = [t \in Threads |-> 0]
    /\ frame = [t \in Threads |-> NoFrame]
    /\ calls = <<>>
    /\ trace = <<>>
    /\ observed = [round |-> NULL, op_id |-> InvalidOpId, updated |-> FALSE]
    /\ synchronizer = [owned |-> TRUE, status |-> "none"]
    /\ NoKey

NextFollower ==
    \/ CallAddedToFollower("drv")
    \/ FollowerRegister("drv")
    \/ FollowerAddedAsPending("drv")
    \/ \E wp \in BOOLEAN : CallReplicated("drv", wp)
    \/ DoReplicated("drv")
    \/ ReplicatedNotify("drv")
    \/ ReplicatedRelease("drv")
    \/ \E wp \in BOOLEAN : CallAborted("drv", "Aborted", wp)
    \/ AbortedNotify("drv")
    \/ AbortedRelease("drv")
    \/ CompareExchange("drv")
    \/ InvokeCallback("drv")

SpecFollower == InitFollower /\ [][NextFollower]_vars


\* ---- properties ---------------------------------------------------------
EventsOf(c) == SelectSeq(trace, LAMBDA e : e.call = c)
Events(kind) == {i \in DOMAIN trace : trace[i].ev = kind}
Returned(c) == calls[c].ret # "running"
IsLast(c) == c = Len(calls)
AllIdle == \A t \in Threads : pc[t] = "idle"
Opt(cond, e) == IF cond THEN <<e>> ELSE <<>>

\* the calls that reach CompleteWithStatus, and the status each hands to it
Completes(c) ==
    \/ calls[c].op \in {"CompleteWithStatus", "Aborted"}
    \/ calls[c].op = "Replicated" /\ calls[c].ret # "ApplyErr"

\* what CompleteWithStatus(status) called from call c does, depending on
\* whether the record was complete already
Completion(c, status, was_complete) ==
    IF was_complete
    THEN <<Ev("DFATAL", c, InvalidHT, InvalidOpId, status)>>
    ELSE <<Ev("flip", c, InvalidHT, InvalidOpId, status)>>
         \o Opt(has_clbk, Ev("Callback", c, InvalidHT, InvalidOpId, status))

C2_FailedApplyStops ==
    \A i \in DOMAIN trace :
        (trace[i].ev = "DoReplicated" /\ trace[i].st = "ApplyErr") =>
            LET c == trace[i].call IN
            /\ calls[c].ret = "ApplyErr"
            /\ EventsOf(c) = <<trace[i]>>
            /\ IsLast(c) => /\ complete_ = calls[c].flag0
                            /\ mvcc_pending = calls[c].pend0

\* the apply hook failed on a pending, not yet completed record of a kind that
\* uses MVCC: the hybrid time is still pending and the flag still false
C2_Witness ==
    /\ use_mvcc_ /\ ~complete_ /\ Len(calls) > 0
    /\ LET c == Len(calls) IN
       /\ calls[c].op = "Replicated" /\ calls[c].ret = "ApplyErr" /\ calls[c].wp
       /\ is_valid(hybrid_time_) /\ hybrid_time_ \in mvcc_pending

\* a call that ended the record: a Replicated that returned OK, or an Aborted
Terminal(c) ==
    \/ calls[c].op = "Replicated" /\ calls[c].ret = "OK"
    \/ calls[c].op = "Aborted" /\ calls[c].ret = "void"

\* C3: once a Replicated succeeded or an Aborted returned, no later Replicated
\* or Aborted call sends anything to MvccManager or changes the hybrid time.
C3_TerminalAbsorbing ==
    \A c1, c2 \in DOMAIN calls :
        (c1 < c2 /\ Terminal(c1) /\ calls[c2].op \in {"Replicated", "Aborted"}) =>
            /\ \A i \in DOMAIN trace :
                  trace[i].call = c2 =>
                      trace[i].ev \notin {"mvcc.Replicated", "mvcc.Aborted"}
            /\ IsLast(c2) => hybrid_time_ = calls[c2].ht0

\* C4: a hybrid time that is valid is never overwritten.
C4_TimestampSetOnce ==
    [][is_valid(hybrid_time_) => hybrid_time_' = hybrid_time_]_vars

\* the events of an Aborted(status, was_pending) call as the code produces them
AbortedEvents(c) ==
    Opt(use_mvcc_ /\ is_valid(calls[c].ht0),
        Ev("mvcc.Aborted", c, calls[c].ht0, calls[c].id0, ""))
    \o Opt(calls[c].wp, Ev("RemovedFromPending", c, InvalidHT, InvalidOpId, ""))
    \o <<Ev("Release", c, InvalidHT, InvalidOpId, "")>>
    \o Completion(c, DoAborted(calls[c].st), calls[c].flag0)

\* C5 as amended: an Aborted call that returns has sent one Aborted(hybrid time,
\* op id) to MvccManager if the kind uses MVCC and the hybrid time was set, and
\* none otherwise; then RemovedFromPending if and only if was_pending; then
\* Release; then CompleteWithStatus(DoAborted(status)), which runs the callback
\* once if the record was not complete before and logs DFATAL otherwise.
C5_AbortedSteps ==
    \A c \in DOMAIN calls :
        (calls[c].op = "Aborted" /\ Returned(c)) => EventsOf(c) = AbortedEvents(c)

\* an abort of a pending, not yet completed record with a hybrid time, of a
\* kind that uses MVCC, has returned
C5_Witness ==
    \E c \in DOMAIN calls :
        /\ calls[c].op = "Aborted" /\ Returned(c) /\ calls[c].wp
        /\ use_mvcc_ /\ is_valid(calls[c].ht0) /\ ~calls[c].flag0
        /\ calls[c].ht0 \in calls[c].pend0 /\ calls[c].ht0 \notin mvcc_pending

\* C5 as claimed: every Aborted call on a record with a hybrid time sends one
\* Aborted notification to MvccManager, and every Aborted call delivers the
\* transformed status to the callback once.
C5_AbortedAsClaimed ==
    \A c \in DOMAIN calls :
        (calls[c].op = "Aborted" /\ Returned(c)) =>
            EventsOf(c) =
                Opt(is_valid(calls[c].ht0),
                    Ev("mvcc.Aborted", c, calls[c].ht0, calls[c].id0, ""))
                \o Opt(calls[c].wp, Ev("RemovedFromPending", c, InvalidHT, InvalidOpId, ""))
                \o <<Ev("Release", c, InvalidHT, InvalidOpId, "")>>
                \o Completion(c, DoAborted(calls[c].st), FALSE)


\* the status the DoReplicated hook of call c left in complete_status
AppliedStatus(c) == EventsOf(c)[1].st

\* the events of a Replicated call whose apply hook succeeded
ReplicatedEvents(c, notifies) ==
    <<Ev("DoReplicated", c, InvalidHT, InvalidOpId, AppliedStatus(c))>>
    \o Opt(notifies, Ev("mvcc.Replicated", c, calls[c].ht0, calls[c].id0, ""))
    \o Opt(calls[c].wp, Ev("RemovedFromPending", c, InvalidHT, InvalidOpId, ""))
    \o <<Ev("Release", c, InvalidHT, InvalidOpId, "")>>

\* C6 as amended: a Replicated call whose apply hook succeeded and that returns
\* has done, in this order: Replicated(hybrid time, op id) to MvccManager if the
\* kind uses MVCC (nothing otherwise), RemovedFromPending if was_pending,
\* Release, and CompleteWithStatus with the status the hook produced, which
\* runs the callback once if the record was not complete before and logs
\* DFATAL otherwise; the callback never precedes the notification or Release.
C6_ReplicatedSteps ==
    \A c \in DOMAIN calls :
        (calls[c].op = "Replicated" /\ calls[c].ret = "OK") =>
            /\ AppliedStatus(c) \in {"OK", "Conflict"}
            /\ EventsOf(c) = ReplicatedEvents(c, use_mvcc_)
                             \o Completion(c, AppliedStatus(c), calls[c].flag0)

\* a pending, not yet completed record of a kind that uses MVCC was replicated
\* and the hook's status, which is not OK, reached the callback
C6_Witness ==
    \E c \in DOMAIN calls :
        /\ calls[c].op = "Replicated" /\ calls[c].ret = "OK" /\ calls[c].wp
        /\ use_mvcc_ /\ is_valid(calls[c].ht0) /\ ~calls[c].flag0
        /\ calls[c].ht0 \in calls[c].pend0 /\ calls[c].ht0 \notin mvcc_pending
        /\ \E i \in Events("Callback") : trace[i].call = c /\ trace[i].st = "Conflict"

\* C6 as claimed: every successful Replicated call notifies MvccManager and
\* delivers the hook's status to the callback once.
C6_ReplicatedAsClaimed ==
    \A c \in DOMAIN calls :
        (calls[c].op = "Replicated" /\ calls[c].ret = "OK") =>
            EventsOf(c) = ReplicatedEvents(c, TRUE)
                          \o Completion(c, AppliedStatus(c), FALSE)

\* the record and the round's message after the AddedToLeader call c, given
\* the event that issued its hybrid time
LeaderResult(c, issue) ==
    /\ issue.call = c /\ issue.ht = hybrid_time_ /\ is_valid(hybrid_time_)
    /\ op_id_ = calls[c].id
    /\ op_id_ = RoundId
    /\ replicate_msg = [id |-> calls[c].id, committed_op_id |-> calls[c].cid,
                        hybrid_time |-> hybrid_time_,
                        monotonic_counter |-> monotonic_counter]
    /\ EventsOf(c) = <<issue,
                       Ev("stamp", c, hybrid_time_, op_id_, ""),
                       Ev("AddedAsPending", c, hybrid_time_, op_id_, "")>>

\* C7 as amended: when AddedToLeader(op_id, committed_op_id) has returned on a
\* bound record, the record's op id is op_id and equals the round's id, its
\* hybrid time is the value AddLeaderPending(op_id) returned if the kind uses
\* MVCC and the clock's Now() otherwise, the round's message carries op_id,
\* committed_op_id, that hybrid time and the tablet's monotonic counter, and
\* AddedAsPending ran after all of this was stored.
C7_LeaderAssignment ==
    \A c \in DOMAIN calls :
        (IsLast(c) /\ calls[c].op = "AddedToLeader" /\ Returned(c)) =>
            /\ consensus_round_ # NULL
            /\ LeaderResult(c, EventsOf(c)[1])
            /\ EventsOf(c)[1].ev = (IF use_mvcc_ THEN "mvcc.AddLeaderPending"
                                    ELSE "clock.Now")
            /\ use_mvcc_ => /\ EventsOf(c)[1].id = calls[c].id
                            /\ hybrid_time_ \in mvcc_pending

\* AddedToLeader has returned on a bound record of a kind that uses MVCC; the
\* round carried another id before
C7_Witness ==
    /\ Len(calls) > 1 /\ use_mvcc_
    /\ LET c == Len(calls) IN
       /\ calls[c].op = "AddedToLeader" /\ Returned(c)
       /\ calls[c].id0 # calls[c].id /\ calls[c].id0 # InvalidOpId
       /\ calls[c].cid # InvalidOpId

\* C7 as claimed: the hybrid time always is the value AddLeaderPending returned.
C7_LeaderAsClaimed ==
    \A c \in DOMAIN calls :
        (IsLast(c) /\ calls[c].op = "AddedToLeader" /\ Returned(c)) =>
            /\ LeaderResult(c, EventsOf(c)[1])
            /\ EventsOf(c)[1].ev = "mvcc.AddLeaderPending"

\* the events of an AddedToFollower call
FollowerEvents(c, registers) ==
    Opt(registers, Ev("mvcc.AddFollowerPending", c, calls[c].ht0, calls[c].id0, ""))
    \o <<Ev("AddedAsPending", c, calls[c].ht0, calls[c].id0, "")>>

\* C8 as amended: an AddedToFollower call that returns has registered exactly
\* the hybrid time and op id the record carried with MvccManager as follower
\* pending if the kind uses MVCC, and registered nothing otherwise; it ran
\* AddedAsPending after that, and left hybrid time and op id as they were.
C8_FollowerAssignment ==
    \A c \in DOMAIN calls :
        (calls[c].op = "AddedToFollower" /\ Returned(c)) =>
            /\ EventsOf(c) = FollowerEvents(c, use_mvcc_)
            /\ IsLast(c) => /\ hybrid_time_ = calls[c].ht0
                            /\ op_id_ = calls[c].id0
                            /\ use_mvcc_ => hybrid_time_ \in mvcc_pending

\* AddedToFollower has returned on a bound record that carries a hybrid time,
\* of a kind that uses MVCC, after the clock had issued other hybrid times
C8_Witness ==
    \E c \in DOMAIN calls :
        /\ calls[c].op = "AddedToFollower" /\ Returned(c) /\ use_mvcc_
        /\ is_valid(calls[c].ht0) /\ calls[c].id0 # InvalidOpId
        /\ calls[c].ht0 \in mvcc_pending

\* C8 as claimed: every AddedToFollower call registers with MvccManager.
C8_FollowerAsClaimed ==
    \A c \in DOMAIN calls :
        (calls[c].op = "AddedToFollower" /\ Returned(c)) =>
            EventsOf(c) = FollowerEvents(c, TRUE)

\* C9 as amended: set_consensus_round stores the round, its atomic mirror and
\* the mirrored id inside one critical section, so whenever mutex_ is free a
\* bound record has its mirror set and its op id equal to the round's id; a
\* reader that does not take mutex_ can see the round before the id.
\* UpdateRequestFromConsensusRound runs after the critical section, with the
\* id already mirrored.
C9_BindCriticalSection ==
    /\ (mutex_ = "none" /\ consensus_round_ # NULL) =>
          /\ consensus_round_atomic_ = consensus_round_
          /\ op_id_ = RoundId
    /\ (mutex_ = "none" /\ consensus_round_ = NULL) =>
          /\ consensus_round_atomic_ = NULL
          /\ op_id_ = InvalidOpId
    /\ observed.op_id # InvalidOpId => observed.round # NULL
    /\ \A i \in Events("UpdateRequestFromConsensusRound") :
          /\ trace[i].id = RoundId
          /\ consensus_round_ # NULL
          /\ calls[trace[i].call].ret = "void"
    /\ request_updated <=> Events("UpdateRequestFromConsensusRound") # {}

\* the bind has returned and a reader saw the round together with its id,
\* after the update hook
C9_Witness ==
    /\ mutex_ = "none" /\ consensus_round_ # NULL
    /\ observed.round # NULL /\ observed.op_id = RoundId /\ observed.updated
    /\ \E c \in DOMAIN calls : calls[c].op = "set_consensus_round" /\ Returned(c)

\* C9 as claimed: no reader, with or without mutex_, sees the round bound
\* before the id is mirrored and the update hook has run.
C9_BindAtomicAsClaimed ==
    observed.round # NULL => (observed.op_id = RoundId /\ observed.updated)

\* C10 as amended: op_id_ is written by set_consensus_round, which mirrors the
\* round's id, and again by AddedToLeader, which stores the id it is given;
\* every other call, AddedToFollower included, leaves it as it was.
C10_OpIdWriters ==
    \A c \in DOMAIN calls :
        (IsLast(c) /\ Returned(c)) =>
            op_id_ = (IF calls[c].op \in {"set_consensus_round", "AddedToLeader"}
                      THEN calls[c].id ELSE calls[c].id0)

\* the op id mirrored by the bind was replaced by AddedToLeader
C10_Witness ==
    /\ Len(calls) > 1
    /\ \E b \in DOMAIN calls :
          /\ calls[b].op = "set_consensus_round" /\ Returned(b)
          /\ calls[b].id # InvalidOpId
          /\ LET c == Len(calls) IN
             /\ calls[c].op = "AddedToLeader" /\ Returned(c) /\ b < c
             /\ op_id_ # calls[b].id

\* C10 as claimed: an op id that is valid never changes.
C10_OpIdAssignedOnce ==
    [][op_id_ # InvalidOpId => op_id_' = op_id_]_vars


\* the registrations with MvccManager that no later Replicated or Aborted
\* notification for the same hybrid time has resolved
OpenRegistrations ==
    {i \in Events("mvcc.AddLeaderPending") \cup Events("mvcc.AddFollowerPending") :
        \A j \in Events("mvcc.Replicated") \cup Events("mvcc.Aborted") :
            ~(j > i /\ trace[j].ht = trace[i].ht)}

\* C11 as amended: MvccManager tracks a hybrid time of the record as pending
\* only for a kind that uses MVCC, from the registration by AddedToLeader or
\* AddedToFollower until the next Replicated or Aborted notification for it.
\* AddedToLeader registers the hybrid time before it stores it in the record;
\* set_hybrid_time registers nothing; between calls no valid hybrid time is
\* pending while the record's own is unset; and once a successful Replicated
\* or an Aborted has returned, the record's valid hybrid time is not pending.
C11_PendingTracking ==
    /\ mvcc_pending = {trace[i].ht : i \in OpenRegistrations}
    /\ ~use_mvcc_ => mvcc_pending = {}
    /\ (AllIdle /\ ~is_valid(hybrid_time_)) => mvcc_pending \subseteq {InvalidHT}
    /\ (pc["drv"] = "atl_store" /\ use_mvcc_) => frame["drv"].ht \in mvcc_pending
    /\ \A c \in DOMAIN calls :
          /\ (IsLast(c) /\ calls[c].op = "set_hybrid_time") =>
                mvcc_pending = calls[c].pend0
          /\ (IsLast(c) /\ Terminal(c) /\ is_valid(hybrid_time_)) =>
                hybrid_time_ \notin mvcc_pending

\* a record bound and registered by AddedToLeader was ended by a terminal call:
\* its hybrid time was pending when the call began and is not any more
C11_Witness ==
    /\ Len(calls) > 2 /\ use_mvcc_
    /\ LET c == Len(calls) IN
       /\ Terminal(c) /\ is_valid(hybrid_time_)
       /\ hybrid_time_ = calls[c].ht0
       /\ calls[c].ht0 \in calls[c].pend0
       /\ hybrid_time_ \notin mvcc_pending
       /\ calls[c - 1].op = "AddedToLeader"

\* C11 as claimed: on a bound record a valid hybrid time is pending with
\* MvccManager exactly while the record's own hybrid time is set and no
\* terminal call has returned.
C11_PendingAsClaimed ==
    consensus_round_ # NULL =>
        \A h \in mvcc_pending \cup {hybrid_time_} :
            is_valid(h) =>
                (h \in mvcc_pending <=>
                    /\ h = hybrid_time_
                    /\ ~\E c \in DOMAIN calls : Terminal(c))

\* ---- C12 ----------------------------------------------------------------
\* whether the owner had been torn down before trace position i
TornDownBefore(i) == \E j \in Events("teardown") : j < i

\* C12: resolving the owner never yields a dangling handle. A strong handle
\* held by any thread keeps the tablet alive. tablet() and tablet_safe() find
\* the tablet expired exactly when the owner was torn down before they looked;
\* then tablet() terminates the process and returns nothing, while
\* tablet_safe() returns IllegalState and terminates nothing. When the tablet
\* is alive both give a strong handle.
C12_OwnerResolution ==
    /\ \A t \in Threads : frame[t].shared => tablet_alive
    /\ \A i \in Events("lock") :
          LET c == trace[i].call IN
          /\ trace[i].st = "expired" <=> TornDownBefore(i)
          /\ trace[i].st = "alive" =>
                /\ calls[c].ret \in {"running", "TabletPtr"}
                /\ calls[c].ret = "running" =>
                      (cur[calls[c].t] = c => /\ pc[calls[c].t] = "tab_held"
                                              /\ frame[calls[c].t].shared)
                /\ \A j \in Events("FATAL") : trace[j].call # c
          /\ (trace[i].st = "expired" /\ calls[c].op = "tablet") =>
                /\ crashed
                /\ calls[c].ret = "running"
                /\ i < Len(trace) /\ trace[i + 1] = Ev("FATAL", c, InvalidHT,
                                                        InvalidOpId, "")
          /\ (trace[i].st = "expired" /\ calls[c].op = "tablet_safe") =>
                /\ calls[c].ret = "IllegalState"
                /\ \A j \in Events("FATAL") : trace[j].call # c
    /\ \A c \in DOMAIN calls :
          (calls[c].op \in {"tablet", "tablet_safe"} /\ Returned(c)) =>
              \E i \in Events("lock") : trace[i].call = c

\* tablet_safe() has reported IllegalState for the torn-down owner and the
\* process went on until tablet() terminated it
C12_Witness ==
    /\ crashed
    /\ \E c \in DOMAIN calls : calls[c].op = "tablet_safe" /\ calls[c].ret = "IllegalState"
    /\ \E c \in DOMAIN calls : calls[c].op = "tablet_safe" /\ calls[c].ret = "TabletPtr"
    /\ \E i \in Events("FATAL") : calls[trace[i].call].op = "tablet"

\* ---- C13 ----------------------------------------------------------------
\* the calls whose completion invoked the callback
CallbackCalls(o) == {c \in DOMAIN calls : /\ calls[c].op = o
                                         /\ \E i \in Events("Callback") : trace[i].call = c}

\* C13: the completion callback is invoked while the record holds none of its
\* own locks. mutex_ is held only inside set_consensus_round, between taking
\* the lock and the end of its scope, so a thread that is completing the
\* record (from Replicated, from Aborted or directly) never holds it when it
\* tests the flag or invokes the callback.
C13_CallbackOutsideLocks ==
    /\ \A t \in Threads : pc[t] \in {"cws_cas", "cws_clbk"} => mutex_ # t
    /\ mutex_ # "none" => pc[mutex_] \in {"bind_atomic", "bind_op_id", "bind_unlock"}
    /\ \A t \in Threads :
          pc[t] \in {"rep_do", "rep_mvcc", "rep_release", "ab_mvcc", "ab_release"}
              => mutex_ # t

\* the lock has been used by a bind, a Replicate stopped at its failed apply
\* hook, and the Abort that followed invoked the callback
C13_Witness ==
    /\ CallbackCalls("Aborted") # {}
    /\ \E c \in DOMAIN calls : calls[c].op = "Replicated" /\ calls[c].ret = "ApplyErr"
    /\ \E c \in DOMAIN calls : calls[c].op = "set_consensus_round" /\ Returned(c)

\* ==== doc_kv_util.h: encoding of key fields ===============================
MaxLen == 3          \* longest string field handed to an encoder

\* a byte is a number in 0..255; the strings of the model are built from the
\* bytes the encoders treat specially and two ordinary ones ('a', 'b')
FieldBytes == {0, 1, 97, 98}
StringsOver(B) == UNION {[1..n -> B] : n \in 0..MaxLen}

\* Slice::compare < 0: byte-lexicographic order, a proper prefix sorts first
RECURSIVE BytesLess(_, _)
BytesLess(a, b) ==
    IF b = <<>> THEN FALSE
    ELSE IF a = <<>> THEN TRUE
    ELSE IF a[1] # b[1] THEN a[1] < b[1]
    ELSE BytesLess(Tail(a), Tail(b))

\* END_OF_STRING ^ c for the two end-of-string bytes 0x00 and 0xff
XorEnd(END, c) == IF END = 0 THEN c ELSE 255 - c

\* the escaped form of s: a zero byte becomes END, END ^ 1, any other byte c
\* becomes END ^ c
RECURSIVE EncodedStr(_, _)
EncodedStr(END, s) ==
    IF s = <<>> THEN <<>>
    ELSE (IF s[1] = 0 THEN <<END, XorEnd(END, 1)>> ELSE <<XorEnd(END, s[1])>>)
         \o EncodedStr(END, Tail(s))

AppendZeroEncodedStrToKey(s, d) == d \o EncodedStr(0, s)

AppendComplementZeroEncodedStrToKey(s, d) == d \o EncodedStr(255, s)

TerminateZeroEncodedKeyStr(d) == d \o <<0, 0>>

TerminateComplementZeroEncodedKeyStr(d) == d \o <<255, 255>>

\* a field encoder that leaves the terminator out
ZeroEncodeAndAppendStrToKeyUnterminated(s, d) == AppendZeroEncodedStrToKey(s, d)

ZeroEncodeAndAppendStrToKey(s, d) ==
    TerminateZeroEncodedKeyStr(AppendZeroEncodedStrToKey(s, d))

\* a descending field encoder that leaves the terminator out
ComplementZeroEncodeAndAppendStrToKeyUnterminated(s, d) ==
    AppendComplementZeroEncodedStrToKey(s, d)

ComplementZeroEncodeAndAppendStrToKey(s, d) ==
    TerminateComplementZeroEncodedKeyStr(AppendComplementZeroEncodedStrToKey(s, d))

ZeroEncodeStr(s) == ZeroEncodeAndAppendStrToKey(s, <<>>)

\* the decoder of a field: consumes a prefix of sl up to and including the
\* terminator pair (the terminator is optional, lines 100-103); a lone END
\* byte or END followed by anything but END or END ^ 1 is malformed
RECURSIVE DecodeEncodedStr(_, _, _)
DecodeEncodedStr(END, sl, acc) ==
    IF sl = <<>> THEN [status |-> "OK", str |-> acc, rest |-> <<>>]
    ELSE IF sl[1] # END
         THEN DecodeEncodedStr(END, Tail(sl), Append(acc, XorEnd(END, sl[1])))
    ELSE IF Len(sl) = 1
         THEN [status |-> "MalformedEncoding", str |-> acc, rest |-> sl]
    ELSE IF sl[2] = END
         THEN [status |-> "OK", str |-> acc, rest |-> SubSeq(sl, 3, Len(sl))]
    ELSE IF sl[2] = XorEnd(END, 1)
         THEN DecodeEncodedStr(END, SubSeq(sl, 3, Len(sl)), Append(acc, 0))
    ELSE [status |-> "MalformedEncoding", str |-> acc, rest |-> sl]

\* DecodeZeroEncodedStr(rocksdb::Slice* slice, std::string* result)
DecodeZeroEncodedStr(sl) == DecodeEncodedStr(0, sl, <<>>)

DecodeComplementZeroEncodedStr(sl) == DecodeEncodedStr(255, sl, <<>>)

\* DecodeZeroEncodedStr(std::string encoded_str): the encoding must be
\* correct and all of it consumed
DecodeZeroEncodedStrWhole(encoded_str) ==
    LET r == DecodeZeroEncodedStr(encoded_str)
    IN IF r.status = "OK" /\ r.rest # <<>>
       THEN [r EXCEPT !.status = "MalformedEncoding"]
       ELSE r

\* ---- building a key of escaped fields and parsing it back ---------------
\* every variable of the Operation model stays as constructed
OperationIdle ==
    UNCHANGED <<synchronizer, build_vars, record_vars, env_vars, crashed, pc, cur, frame, calls,
                trace, observed>>

NoOperation ==
    /\ Constructed
    /\ ~debug_build /\ ~use_mvcc_ /\ ~has_clbk
    /\ RoundId = InvalidOpId

\* the fields of a key: one field, or a field with a second one behind it
Fields == {<<s>> : s \in StringsOver(FieldBytes)}
              \cup (StringsOver(FieldBytes) \X StringsOver(FieldBytes))

InitEscape ==
    /\ NoOperation
    /\ args \in Fields
    /\ dest = <<>>
    /\ slice = <<>>
    /\ result = <<>>
    /\ step = 0

\* the next field is appended to the key: ZeroEncodeAndAppendStrToKey
EncodeField ==
    /\ step < Len(args)
    /\ dest' = ZeroEncodeAndAppendStrToKey(args[step + 1], dest)
    /\ step' = step + 1
    /\ UNCHANGED <<args, slice, result>>
    /\ OperationIdle

\* a reader takes the finished key as the slice to parse
TakeSlice ==
    /\ step = Len(args)
    /\ slice' = dest
    /\ step' = step + 1
    /\ UNCHANGED <<args, dest, result>>
    /\ OperationIdle

\* the next field is parsed off the slice: DecodeZeroEncodedStr(&slice, &result)
DecodeField ==
    /\ step > Len(args)
    /\ step <= 2 * Len(args)
    /\ LET r == DecodeZeroEncodedStr(slice)
       IN /\ result' = Append(result, [status |-> r.status, str |-> r.str])
          /\ slice' = r.rest
    /\ step' = step + 1
    /\ UNCHANGED <<args, dest>>
    /\ OperationIdle

\* the finished key is decoded as one string: DecodeZeroEncodedStr(encoded_str)
DecodeWhole ==
    /\ step = Len(args)
    /\ LET r == DecodeZeroEncodedStrWhole(dest)
       IN result' = <<[status |-> r.status, str |-> r.str]>>
    /\ step' = 2 * Len(args) + 1
    /\ UNCHANGED <<args, dest, slice>>
    /\ OperationIdle

NextEscape ==
    \/ EncodeField
    \/ TakeSlice
    \/ DecodeField
    \/ DecodeWhole

SpecEscape == InitEscape /\ [][NextEscape]_vars

\* ---- C14 ----------------------------------------------------------------
\* the two-byte terminator starts at position i of d
TerminatorAt(d, i) == i < Len(d) /\ d[i] = 0 /\ d[i + 1] = 0

\* the key made of the given fields
RECURSIVE KeyOf(_)
KeyOf(fields) ==
    IF fields = <<>> THEN <<>> ELSE ZeroEncodeStr(Head(fields)) \o KeyOf(Tail(fields))

\* the fields parsed off the slice one by one so far (as opposed to the key
\* decoded as one string)
FieldsParsed == IF step > Len(args) /\ Len(result) = step - Len(args) - 1
                THEN Len(result) ELSE 0

\* C14: the escaped-field round trip. The escaped form of a field contains
\* no terminator pair, so the first terminator pair of a key is the one that
\* ends its first field; parsing the key field by field returns every field
\* as it was given, leaves exactly the encoding of the fields not yet parsed
\* and, after the last field, nothing; the key of a single field decoded as
\* one string gives the field back.
C14_EscapeRoundTrip ==
    /\ step >= 1 =>
          LET e == AppendZeroEncodedStrToKey(args[1], <<>>)
          IN /\ \A i \in 1..Len(e) : ~TerminatorAt(e, i)
             /\ SubSeq(dest, 1, Len(e)) = e
             /\ TerminatorAt(dest, Len(e) + 1)
             /\ \A i \in 1..Len(e) : ~TerminatorAt(dest, i)
    /\ \A k \in 1..FieldsParsed : result[k] = [status |-> "OK", str |-> args[k]]
    /\ FieldsParsed > 0 =>
          slice = KeyOf(SubSeq(args, FieldsParsed + 1, Len(args)))
    /\ (Len(args) = 1 /\ step = 3) =>
          /\ result = <<[status |-> "OK", str |-> args[1]]>>
          /\ slice = <<>>

\* the string a 0x00 b has been encoded as a 0x00 0x01 b 0x00 0x00 and
\* decoded back, with all of the input consumed
C14_Witness ==
    /\ args = << <<97, 0, 98>> >>
    /\ dest = <<97, 0, 1, 98, 0, 0>>
    /\ result = <<[status |-> "OK", str |-> <<97, 0, 98>>]>>
    /\ slice = <<>>
    /\ step = 3

\* ---- two strings encoded as ascending and as descending keys ------------
\* the bytes at both ends of the byte order: the reserved bytes of the two
\* encodings and their escape bytes
OrderBytes == {0, 1, 254, 255}

InitOrder ==
    /\ NoOperation
    /\ args \in StringsOver(OrderBytes) \X StringsOver(OrderBytes)
    /\ dest = <<>>
    /\ slice = <<>>
    /\ result = <<>>
    /\ step = 0

\* args[1], then args[2], each into a key buffer of its own:
\* ZeroEncodeAndAppendStrToKey(s, &buffer)
EncodeAscending ==
    /\ step < 2
    /\ dest' = Append(dest, ZeroEncodeAndAppendStrToKey(args[step + 1], <<>>))
    /\ step' = step + 1
    /\ UNCHANGED <<args, slice, result>>
    /\ OperationIdle

\* then the same two strings with ComplementZeroEncodeAndAppendStrToKey
EncodeDescending ==
    /\ step >= 2
    /\ step < 4
    /\ dest' = Append(dest, ComplementZeroEncodeAndAppendStrToKey(args[step - 1], <<>>))
    /\ step' = step + 1
    /\ UNCHANGED <<args, slice, result>>
    /\ OperationIdle

NextOrder ==
    \/ EncodeAscending
    \/ EncodeDescending

SpecOrder == InitOrder /\ [][NextOrder]_vars

\* ---- C15 ----------------------------------------------------------------
\* C15: the escaped encodings keep the order of the strings. When the first
\* string is byte-lexicographically less than the second, its terminated
\* ascending encoding is less than that of the second, and its terminated
\* descending encoding is greater; equal strings have equal encodings.
C15_OrderPreserved ==
    /\ step >= 2 =>
          /\ BytesLess(args[1], args[2]) => BytesLess(dest[1], dest[2])
          /\ args[1] = args[2] => dest[1] = dest[2]
    /\ step = 4 =>
          /\ BytesLess(args[1], args[2]) => BytesLess(dest[4], dest[3])
          /\ args[1] = args[2] => dest[3] = dest[4]

\* a string that ends in the reserved byte and a longer one that it is a
\* prefix of have been encoded both ways
C15_Witness ==
    /\ step = 4
    /\ args = << <<255, 0>>, <<255, 0, 0>> >>
    /\ dest[1] = <<255, 0, 1, 0, 0>>
    /\ dest[2] = <<255, 0, 1, 0, 1, 0, 0>>
    /\ dest[3] = <<0, 255, 254, 255, 255>>
    /\ dest[4] = <<0, 255, 254, 255, 254, 255, 255>>

\* ==== doc_kv_util.h: the inverted encoded DocHybridTime ===================
MaxSuffixLen == 2    \* longest encoded DocHybridTime of the model

\* bytes of an encoded DocHybridTime: the low five bits of these are 0, 1,
\* 2 or 31, the rest of the byte is at either end or in the middle
SuffixBytes == {0, 1, 2, 33, 128, 224, 225, 255}

\* an encoded DocHybridTime: at most MaxSuffixLen bytes, the low bits of the
\* last byte hold the encoded size minus one
ValidSuffix(h) ==
    /\ Len(h) >= 1
    /\ h[Len(h)] % 32 = Len(h) - 1

ValidSuffixes ==
    {h \in UNION {[1..n -> SuffixBytes] : n \in 1..MaxSuffixLen} : ValidSuffix(h)}

\* a copy of the input that is not complemented
InvertEncodedDocHTCopied(input) == input

\* InvertEncodedDocHT(input, buffer): the bitwise complement of every byte of
\* input, written to the buffer; the returned slice covers it
InvertEncodedDocHT(input) == [i \in 1..Len(input) |-> 255 - input[i]]

InitInvert ==
    /\ NoOperation
    /\ args \in ValidSuffixes \X ValidSuffixes
    /\ dest = <<>>
    /\ slice = <<>>
    /\ result = <<>>
    /\ step = 0

\* args[1], then args[2], each inverted into a buffer of its own
InvertSuffix ==
    /\ step < 2
    /\ dest' = Append(dest, InvertEncodedDocHT(args[step + 1]))
    /\ step' = step + 1
    /\ UNCHANGED <<args, slice, result>>
    /\ OperationIdle

\* then the two inverted suffixes inverted again
InvertBack ==
    /\ step >= 2
    /\ step < 4
    /\ dest' = Append(dest, InvertEncodedDocHT(dest[step - 1]))
    /\ step' = step + 1
    /\ UNCHANGED <<args, slice, result>>
    /\ OperationIdle

NextInvert ==
    \/ InvertSuffix
    \/ InvertBack

SpecInvert == InitInvert /\ [][NextInvert]_vars

\* ---- C16 ----------------------------------------------------------------
\* a is b or the beginning of b
IsPrefix(a, b) == Len(a) <= Len(b) /\ SubSeq(b, 1, Len(a)) = a

Words == {0, 255, 256, 65535}
UInt(w) == [1..(w \div 16) -> Words]
Widths == {16, 32, 64}

\* a < b for two unsigned integers of the same width
RECURSIVE UIntLess(_, _)
UIntLess(a, b) ==
    LET n == Len(a)
    IN IF n = 0 THEN FALSE
       ELSE IF a[n] # b[n] THEN a[n] < b[n]
       ELSE UIntLess(SubSeq(a, 1, n - 1), SubSeq(b, 1, n - 1))

\* BigEndian::Store16 / Store32 / Store64: the most significant byte first
Store16(val) == <<val[1] \div 256, val[1] % 256>>
Store32(val) == Store16(<<val[2]>>) \o Store16(<<val[1]>>)
Store64(val) == Store32(<<val[3], val[4]>>) \o Store32(<<val[1], val[2]>>)

\* the bytes of val as they lie in the memory of a little-endian machine
RECURSIVE LittleEndianBytes(_)
LittleEndianBytes(val) ==
    IF val = <<>> THEN <<>>
    ELSE <<val[1] % 256, val[1] \div 256>> \o LittleEndianBytes(Tail(val))

AppendUInt16ToKey(val, d) == d \o Store16(val)

AppendUInt32ToKey(val, d) == d \o Store32(val)

\* an append of the value's bytes in memory order
AppendUInt64ToKeyMemoryOrder(val, d) == d \o LittleEndianBytes(val)

AppendUInt64ToKey(val, d) == d \o Store64(val)

\* what a key buffer holds before an integer is appended
Prefixes == {<<>>, <<97>>}

\* two integers of one width, and the contents both key buffers start with
InitBigEndian ==
    /\ NoOperation
    /\ \E w \in Widths : args \in UInt(w) \X UInt(w) \X Prefixes
    /\ dest = <<args[3], args[3]>>
    /\ slice = <<>>
    /\ result = <<>>
    /\ step = 0

\* args[1] is appended to dest[1], then args[2] to dest[2], by the function
\* of their width
AppendUInt16 ==
    /\ step < 2
    /\ Len(args[step + 1]) = 1
    /\ dest' = [dest EXCEPT ![step + 1] = AppendUInt16ToKey(args[step + 1], @)]
    /\ step' = step + 1
    /\ UNCHANGED <<args, slice, result>>
    /\ OperationIdle

AppendUInt32 ==
    /\ step < 2
    /\ Len(args[step + 1]) = 2
    /\ dest' = [dest EXCEPT ![step + 1] = AppendUInt32ToKey(args[step + 1], @)]
    /\ step' = step + 1
    /\ UNCHANGED <<args, slice, result>>
    /\ OperationIdle

AppendUInt64 ==
    /\ step < 2
    /\ Len(args[step + 1]) = 4
    /\ dest' = [dest EXCEPT ![step + 1] = AppendUInt64ToKey(args[step + 1], @)]
    /\ step' = step + 1
    /\ UNCHANGED <<args, slice, result>>
    /\ OperationIdle

NextBigEndian ==
    \/ AppendUInt16
    \/ AppendUInt32
    \/ AppendUInt64

SpecBigEndian == InitBigEndian /\ [][NextBigEndian]_vars

\* ---- C17 ----------------------------------------------------------------
\* the bytes of d behind its first n bytes
Behind(d, n) == SubSeq(d, n + 1, Len(d))

\* C17: for each width, an append adds exactly width / 8 bytes behind the
\* contents the buffer had, which stay as they were, and of two integers of
\* that width the first is less than the second exactly when the bytes
\* appended for it are byte-lexicographically less.
C17_BigEndianOrder ==
    LET prefix == args[3]
    IN /\ \A k \in 1..2 :
             /\ SubSeq(dest[k], 1, Len(prefix)) = prefix
             /\ Len(dest[k]) = Len(prefix) + (IF step >= k THEN 2 * Len(args[k]) ELSE 0)
       /\ step = 2 =>
             (UIntLess(args[1], args[2])
                  <=> BytesLess(Behind(dest[1], Len(prefix)), Behind(dest[2], Len(prefix))))

\* 255 and 256 have been appended as 64-bit integers behind one byte
C17_Witness ==
    /\ step = 2
    /\ args = << <<255, 0, 0, 0>>, <<256, 0, 0, 0>>, <<97>> >>
    /\ dest = << <<97, 0, 0, 0, 0, 0, 0, 0, 255>>, <<97, 0, 0, 0, 0, 0, 0, 1, 0>> >>

\* ---- C18 ----------------------------------------------------------------
\* the Synchronizer had been destroyed before trace position i
SyncDestroyedBefore(i) == \E j \in Events("sync.destroyed") : j < i

\* the positions of the events of the given kind made by call c
EventsIn(c, kind) == {i \in Events(kind) : trace[i].call = c}

\* C18: the weak Synchronizer callback delivers the completion status exactly
\* when the Synchronizer is alive at the moment the callback locks it. The
\* lock finds the Synchronizer expired exactly when it was destroyed before;
\* then the callback does nothing. Otherwise StatusCB runs once with the
\* status of the completion, on a Synchronizer that has not been destroyed,
\* whatever its owner does in between; no call uses a destroyed Synchronizer.
C18_WeakSynchronizerCallback ==
    /\ Events("UseAfterFree") = {}
    /\ \A i \in Events("sync.lock") :
          LET c == trace[i].call IN
          /\ trace[i].st = "expired" <=> SyncDestroyedBefore(i)
          /\ EventsIn(c, "Callback") # {}
          /\ trace[i].st = "expired" => EventsIn(c, "StatusCB") = {} /\ Returned(c)
          /\ (trace[i].st = "alive" /\ Returned(c)) =>
                Cardinality(EventsIn(c, "StatusCB")) = 1
    /\ \A i \in Events("StatusCB") :
          /\ ~SyncDestroyedBefore(i)
          /\ \E j \in EventsIn(trace[i].call, "sync.lock") :
                j < i /\ trace[j].st = "alive"
          /\ \E j \in EventsIn(trace[i].call, "Callback") : trace[j].st = trace[i].st
          /\ synchronizer.status = trace[i].st
    /\ Events("StatusCB") = {} => synchronizer.status = "none"
    /\ \A c \in DOMAIN calls :
          (Returned(c) /\ EventsIn(c, "Callback") # {}) => EventsIn(c, "sync.lock") # {}

\* the owner let go of the Synchronizer while the callback held it: the
\* status was delivered and the Synchronizer destroyed when the callback
\* returned; a later completion found the flag set
C18_Witness ==
    /\ \E i \in Events("sync.destroyed") :
          /\ trace[i].call # 0
          /\ EventsIn(trace[i].call, "StatusCB") # {}
    /\ synchronizer = [owned |-> FALSE, status |-> DoAborted("Aborted")]
    /\ Events("DFATAL") # {}

\* ---- C19 ----------------------------------------------------------------
\* C19: MvccManager is notified of a terminal outcome (Replicated or Aborted)
\* for a hybrid time only after that hybrid time was registered with it by
\* AddLeaderPending or AddFollowerPending.
C19_NotifiedOnlyRegistered ==
    \A i \in Events("mvcc.Replicated") \cup Events("mvcc.Aborted") :
        is_valid(trace[i].ht) =>
            \E j \in Events("mvcc.AddLeaderPending") \cup Events("mvcc.AddFollowerPending") :
                j < i /\ trace[j].ht = trace[i].ht

\* ---- C20 ----------------------------------------------------------------
\* the Aborted calls that follow a Replicated call whose apply hook failed on
\* a record that was not complete
AbortsAfterFailedApply ==
    {c \in DOMAIN calls :
        /\ c > 1
        /\ calls[c].op = "Aborted"
        /\ calls[c - 1].op = "Replicated"
        /\ calls[c - 1].ret = "ApplyErr"
        /\ ~calls[c - 1].flag0}

\* C20: a Replicate that fails in the apply hook leaves the record as it
\* found it, not complete and abortable. The Abort that follows finds the
\* flag clear and the hybrid time and the pending set unchanged; it notifies
\* MvccManager of the abort of the hybrid time if the kind uses MVCC (and of
\* nothing otherwise), which ends the pending tracking of that hybrid time,
\* calls RemovedFromPending if was_pending, calls Release once and delivers
\* the callback, which thereby has run exactly once on the record.
C20_AbortAfterFailedApply ==
    \A c \in AbortsAfterFailedApply :
        /\ ~calls[c].flag0
        /\ calls[c].ht0 = calls[c - 1].ht0
        /\ calls[c].pend0 = calls[c - 1].pend0
        /\ Returned(c) =>
              /\ EventsOf(c) = AbortedEvents(c)
              /\ Cardinality(EventsIn(c, "Release")) = 1
              /\ EventsIn(c, "Callback") = Events("Callback")
              /\ Cardinality(Events("Callback")) = 1
              /\ IsLast(c) => /\ complete_
                              /\ calls[c].ht0 \notin mvcc_pending

\* the apply hook failed on a follower's pending record of a kind that uses
\* MVCC; the Abort that followed took the hybrid time out of the pending set
\* and delivered the callback
C20_Witness ==
    \E c \in AbortsAfterFailedApply :
        /\ Returned(c) /\ IsLast(c)
        /\ use_mvcc_ /\ calls[c].wp
        /\ calls[c].ht0 \in calls[c].pend0
        /\ calls[c].ht0 \notin mvcc_pending
        /\ EventsIn(c, "Callback") # {}

\* C20 as claimed: the Abort that follows a failed apply always sends the
\* Aborted notification for the record's hybrid time
C20_AbortNotifiesAsClaimed ==
    \A c \in AbortsAfterFailedApply :
        Returned(c) =>
            \E i \in EventsIn(c, "mvcc.Aborted") : trace[i].ht = calls[c].ht0

====
